---- MODULE Spec2Model ----
(***************************************************************************)
(* The Rosetta construction router of stacks-blockchain-api                *)
(* (createRosettaConstructionRouter): eight POST handlers, each modelled   *)
(* statement group by statement group.                                     *)
(*                                                                         *)
(* A hex string is a sequence of two-character tokens: a byte "00".."04",  *)
(* the prefix "0x", or "zz" for characters that are not hexadecimal.       *)
(* A recoverable signature keeps its real size, 65 bytes (v, r, s with r   *)
(* and s 32 bytes each); keys, digests, addresses and the numeric fields   *)
(* of a transaction are one byte wide.                                     *)
(*                                                                         *)
(* responses is the sequence of res.status(..).json(..) calls the running  *)
(* handler has made.  The client receives responses[1]; a later call finds *)
(* the headers already sent, Node raises ERR_HTTP_HEADERS_SENT and the     *)
(* handler ends by that exception (threw).                                 *)
(***************************************************************************)
EXTENDS Integers, Sequences, FiniteSets, TLC

VARIABLES
    pc,         \* position of the running handler
    req,        \* the request body (handlers rewrite some of its fields)
    responses,  \* res.json calls made so far, in order
    threw,      \* the handler ended by an uncaught exception
    transaction,\* the deserialized StacksTransaction the handler holds
    preSignHash,\* combine: makePresignHash(transaction)
    newSignature,\* combine: the normalized MessageSignature
    calls,      \* external calls made for this request, in order
    local,      \* values a handler keeps between two of its steps
    flow        \* the exchanges the client completed before this request

vars ==
    <<pc, req, responses, threw, transaction, preSignHash, newSignature, calls, local,
      flow>>

-----------------------------------------------------------------------------
(* Bounds *)

\* the largest account nonce the account service reports
MaxNonce == 1

\* the longest signature list and public-key list a request carries
MaxList == 2

-----------------------------------------------------------------------------
(* Bytes and hex strings *)

ByteTokens == <<"00", "01", "02", "03", "04">>

Byte == {ByteTokens[i] : i \in 1..Len(ByteTokens)}

ByteOf(n) == ByteTokens[n + 1]

NumOf(b) == CHOOSE n \in 0..(Len(ByteTokens) - 1) : ByteTokens[n + 1] = b

Rep(n, b) == [i \in 1..n |-> b]

RECURSIVE SumBytes(_)
SumBytes(s) == IF s = <<>> THEN 0 ELSE NumOf(Head(s)) + SumBytes(Tail(s))

\* helpers.has0xPrefix
has0xPrefix(s) == Len(s) > 0 /\ s[1] = "0x"

\* String.prototype.replace('0x', ''): the first occurrence is removed
RECURSIVE Replace0x(_)
Replace0x(s) ==
    IF s = <<>> THEN <<>>
    ELSE IF Head(s) = "0x" THEN Tail(s)
    ELSE <<Head(s)>> \o Replace0x(Tail(s))

IsHex(s) == \A i \in 1..Len(s) : s[i] \in Byte

\* helpers.hexToBuffer: throws without the prefix or on a non-hex character
HexToBufferThrows(s) == ~has0xPrefix(s) \/ ~IsHex(Tail(s))

HexToBuffer(s) == Tail(s)

\* the digest function (sha512/256 in the library), one byte wide here
Digest(bytes) == <<ByteOf((SumBytes(bytes) + Len(bytes)) % 4)>>

-----------------------------------------------------------------------------
(* Signatures *)

\* RECOVERABLE_ECDSA_SIG_LENGTH_BYTES of the transactions library
SIG_LENGTH_BYTES == 65

\* the offset of hash.slice(128), in hex characters
SLICE_AT == 128

\* emptyMessageSignature().data
emptyMessageSignature == Rep(SIG_LENGTH_BYTES, "00")

\* Buffer.from(hex, 'hex').byteLength: decoding stops at the first non-hex character
RECURSIVE HexByteLength(_)
HexByteLength(s) ==
    IF s = <<>> \/ Head(s) \notin Byte THEN 0 ELSE 1 + HexByteLength(Tail(s))

\* createMessageSignature throws unless the signature is 65 bytes long
CreateMessageSignatureThrows(hex) == HexByteLength(hex) # SIG_LENGTH_BYTES

Slice(s, from) == SubSeq(s, from + 1, Len(s))

\* combine, lines 605-608: a trailing recovery byte 01 is rotated to the front
NormalizeSignature(hex) ==
    IF ~(Len(hex) > 0 /\ hex[1] = "01") /\ Slice(hex, SLICE_AT \div 2) = <<"01">>
    THEN Slice(hex, SLICE_AT \div 2) \o SubSeq(hex, 1, Len(hex) - 1)
    ELSE hex

\* the public keys that decode to a point of the curve
ValidKey == {"01", "02"}

\* the signature of digest d under the key whose public key is k, recovery byte v
SignatureOf(k, d, v) == <<v>> \o Rep(32, k) \o Rep(32, d)

\* rosetta-helpers.verifySignature(message, publicKey, signature): r and s are
\* read behind the leading recovery byte; a key or message that does not decode
\* makes the library throw, which is caught and answered false
verifySignature(message, publicKey, signature) ==
    /\ Len(publicKey) = 1 /\ publicKey[1] \in ValidKey
    /\ Len(message) = 1 /\ message[1] \in Byte
    /\ Len(signature) = SIG_LENGTH_BYTES
    /\ SubSeq(signature, 2, 33) = Rep(32, publicKey[1])
    /\ SubSeq(signature, 34, 65) = Rep(32, message[1])

-----------------------------------------------------------------------------
(* Transactions (the wire format of the transactions library, one byte per field) *)

\* AuthType.Standard
AuthStandard == "04"

\* AddressHashMode.SerializeP2PKH (single signature) and SerializeP2SH (multi signature)
HashModeOf(mode) == IF mode = "single" THEN "00" ELSE "01"

\* isSingleSig(spendingCondition)
isSingleSig(t) == t.mode = "single"

\* the value of a handler's transaction variable before it is assigned
NoTx ==
    [hasSC |-> FALSE, mode |-> "none", signer |-> "00", nonce |-> 0, fee |-> 0,
     signature |-> <<>>, fields |-> <<>>, recipient |-> "00", amount |-> 0]

\* StacksTransaction.serialize()
Serialize(t) ==
    <<AuthStandard, HashModeOf(t.mode), t.signer, ByteOf(t.nonce), ByteOf(t.fee)>>
    \o (IF isSingleSig(t) THEN t.signature ELSE <<ByteOf(Len(t.fields))>> \o t.fields)
    \o <<t.recipient, ByteOf(t.amount)>>

\* deserializeTransaction throws on an unknown auth type or hash mode and when
\* the buffer ends before the transaction does
DeserializeThrows(b) ==
    \/ Len(b) < 6
    \/ b[1] # AuthStandard
    \/ b[2] \notin {"00", "01"}
    \/ b[2] = "00" /\ Len(b) < 5 + SIG_LENGTH_BYTES + 2
    \/ b[2] = "01" /\ Len(b) < 6 + NumOf(b[6]) + 2

\* deserializeTransaction(BufferReader.fromBuffer(buffer))
Deserialize(b) ==
    LET single == b[2] = "00"
        n == IF single THEN 0 ELSE NumOf(b[6])
        rest == IF single THEN 5 + SIG_LENGTH_BYTES ELSE 6 + n
    IN  [hasSC |-> TRUE,
         mode |-> IF single THEN "single" ELSE "multi",
         signer |-> b[3], nonce |-> NumOf(b[4]), fee |-> NumOf(b[5]),
         signature |-> IF single THEN SubSeq(b, 6, 5 + SIG_LENGTH_BYTES) ELSE <<>>,
         fields |-> IF single THEN <<>> ELSE SubSeq(b, 7, 6 + n),
         recipient |-> b[rest + 1], amount |-> NumOf(b[rest + 2])]

\* StacksTransaction.txid(): the digest of the serialized transaction
txid(t) == Digest(Serialize(t))

\* StacksTransaction.signBegin() / verifyBegin(): the txid of the transaction
\* with its spending condition cleared (fee 0, nonce 0, no signature)
signBegin(t) ==
    txid([t EXCEPT !.nonce = 0, !.fee = 0,
                   !.signature = IF isSingleSig(t) THEN emptyMessageSignature ELSE <<>>,
                   !.fields = <<>>])

\* makeSigHashPreSign(curSigHash, authType, fee, nonce)
makeSigHashPreSign(curSigHash, authType, fee, nonce) ==
    Digest(curSigHash \o <<authType, ByteOf(fee), ByteOf(nonce)>>)

\* rosetta-helpers.makePresignHash(transaction): undefined (the empty string
\* here) when the transaction carries no spending condition
makePresignHash(t) ==
    IF ~t.hasSC THEN <<>>
    ELSE makeSigHashPreSign(signBegin(t), AuthStandard, t.fee, t.nonce)

-----------------------------------------------------------------------------
(* Responses *)

\* res.status(400).json(RosettaErrors.<code>)
Err(code) == [status |-> 400, error |-> code]

\* res.status(400).json(makeRosettaError(valid))
SchemaError == Err("schemaValidation")

\* one res.json call: the first is sent; a later one throws ERR_HTTP_HEADERS_SENT
Send(r, next) ==
    /\ responses' = Append(responses, r)
    /\ IF responses = <<>>
       THEN pc' = next /\ threw' = threw
       ELSE pc' = "done" /\ threw' = TRUE

\* a statement group that sends nothing
Goto(next) == pc' = next /\ UNCHANGED <<responses, threw>>

\* an exception no try block of the handler catches
Throw == pc' = "done" /\ threw' = TRUE /\ UNCHANGED responses

-----------------------------------------------------------------------------
(* POST /combine *)

\* lines 556-566: schema validation, then the 0x prefix is put on the transaction
CombineValidate ==
    /\ pc = "combine"
    /\ IF ~req.schemaValid
       THEN Send(SchemaError, "done") /\ UNCHANGED req
       ELSE /\ Goto("combine_count")
            /\ req' = [req EXCEPT !.unsigned_transaction =
                          IF has0xPrefix(@) THEN @ ELSE <<"0x">> \o @]
    /\ UNCHANGED <<flow, transaction, preSignHash, newSignature, calls, local>>

\* lines 568-571
CombineNoSignatures ==
    /\ pc = "combine_count"
    /\ IF Len(req.signatures) = 0
       THEN Send(Err("noSignatures"), "done")
       ELSE Goto("combine_deserialize")
    /\ UNCHANGED <<flow, req, transaction, preSignHash, newSignature, calls, local>>

\* lines 573-582
CombineDeserialize ==
    /\ pc = "combine_deserialize"
    /\ IF \/ HexToBufferThrows(req.unsigned_transaction)
          \/ DeserializeThrows(HexToBuffer(req.unsigned_transaction))
       THEN Send(Err("invalidTransactionString"), "done") /\ UNCHANGED transaction
       ELSE /\ Goto("combine_one")
            /\ transaction' = Deserialize(HexToBuffer(req.unsigned_transaction))
    /\ UNCHANGED <<flow, req, preSignHash, newSignature, calls, local>>

\* line 584: the error is sent and the handler goes on
CombineOnlyOne ==
    /\ pc = "combine_one"
    /\ IF Len(req.signatures) # 1
       THEN Send(Err("needOnlyOneSignature"), "combine_curve")
       ELSE Goto("combine_curve")
    /\ UNCHANGED <<flow, req, transaction, preSignHash, newSignature, calls, local>>

\* lines 586-589 without the test
CombineCurveTypeSkipped ==
    /\ pc = "combine_curve"
    /\ Goto("combine_presign")
    /\ UNCHANGED <<flow, req, transaction, preSignHash, newSignature, calls, local>>

\* lines 586-589
CombineCurveType ==
    /\ pc = "combine_curve"
    /\ IF req.signatures[1].public_key.curve_type # "secp256k1"
       THEN Send(Err("invalidCurveType"), "done")
       ELSE Goto("combine_presign")
    /\ UNCHANGED <<flow, req, transaction, preSignHash, newSignature, calls, local>>

\* lines 590-594
CombinePresign ==
    /\ pc = "combine_presign"
    /\ preSignHash' = makePresignHash(transaction)
    /\ IF makePresignHash(transaction) = <<>>
       THEN Send(Err("invalidTransactionString"), "done")
       ELSE Goto("combine_normalize")
    /\ UNCHANGED <<flow, req, transaction, newSignature, calls, local>>

\* lines 596-613
CombineNormalize ==
    /\ pc = "combine_normalize"
    /\ LET hash == NormalizeSignature(req.signatures[1].hex_bytes)
       IN  IF CreateMessageSignatureThrows(hash)
           THEN Send(Err("invalidSignature"), "done") /\ UNCHANGED newSignature
           ELSE Goto("combine_verify") /\ newSignature' = hash
    /\ UNCHANGED <<flow, req, transaction, preSignHash, calls, local>>

\* lines 615-620: the prefix is tested on the public key and removed from the
\* signing payload
CombineStripPayload(sig) ==
    IF has0xPrefix(sig.public_key.hex_bytes)
    THEN [sig EXCEPT !.signing_payload.hex_bytes = Replace0x(@)]
    ELSE sig

\* lines 622-628: the digest, key and signature given to verifySignature
CombineVerified(sig, presign, signature) ==
    verifySignature(sig.signing_payload.hex_bytes, sig.public_key.hex_bytes, signature)

\* lines 615-630: the error is sent and the handler goes on
CombineVerify ==
    /\ pc = "combine_verify"
    /\ req' = [req EXCEPT !.signatures[1] = CombineStripPayload(@)]
    /\ IF ~CombineVerified(CombineStripPayload(req.signatures[1]), preSignHash, newSignature)
       THEN Send(Err("signatureNotVerified"), "combine_splice")
       ELSE Goto("combine_splice")
    /\ UNCHANGED <<flow, transaction, preSignHash, newSignature, calls, local>>

\* the arms of the test of line 632 exchanged
CombineSplicedOtherArm(t, signature) ==
    IF t.hasSC /\ isSingleSig(t) THEN t ELSE [t EXCEPT !.signature = signature]

\* lines 632-636: only the single-signature arm writes
CombineSpliced(t, signature) ==
    IF t.hasSC /\ isSingleSig(t) THEN [t EXCEPT !.signature = signature] ELSE t

CombineSplice ==
    /\ pc = "combine_splice"
    /\ transaction' = CombineSpliced(transaction, newSignature)
    /\ Goto("combine_respond")
    /\ UNCHANGED <<flow, req, preSignHash, newSignature, calls, local>>

\* lines 638-644
CombineRespond ==
    /\ pc = "combine_respond"
    /\ Send([status |-> 200, error |-> "",
             signed_transaction |-> <<"0x">> \o Serialize(transaction)], "done")
    /\ UNCHANGED <<flow, req, transaction, preSignHash, newSignature, calls, local>>

Combine ==
    \/ CombineValidate
    \/ CombineNoSignatures
    \/ CombineDeserialize
    \/ CombineOnlyOne
    \/ CombineCurveType
    \/ CombinePresign
    \/ CombineNormalize
    \/ CombineVerify
    \/ CombineSplice
    \/ CombineRespond

-----------------------------------------------------------------------------
(* POST /hash *)

\* lines 337-347
HashValidate ==
    /\ pc = "hash"
    /\ IF ~req.schemaValid
       THEN Send(SchemaError, "done") /\ UNCHANGED req
       ELSE /\ Goto("hash_decode")
            /\ req' = [req EXCEPT !.signed_transaction =
                          IF has0xPrefix(@) THEN @ ELSE <<"0x">> \o @]
    /\ UNCHANGED <<flow, transaction, preSignHash, newSignature, calls, local>>

\* lines 349-355
HashDecode ==
    /\ pc = "hash_decode"
    /\ IF HexToBufferThrows(req.signed_transaction)
       THEN Send(Err("invalidTransactionString"), "done")
       ELSE Goto("hash_deserialize")
    /\ UNCHANGED <<flow, req, transaction, preSignHash, newSignature, calls, local>>

\* lines 357-358: deserializeTransaction is called outside any try block
HashDeserialize ==
    /\ pc = "hash_deserialize"
    /\ IF DeserializeThrows(HexToBuffer(req.signed_transaction))
       THEN Throw /\ UNCHANGED <<transaction, local>>
       ELSE /\ Goto("hash_signed")
            /\ transaction' = Deserialize(HexToBuffer(req.signed_transaction))
            /\ local' = txid(Deserialize(HexToBuffer(req.signed_transaction)))
    /\ UNCHANGED <<flow, req, preSignHash, newSignature, calls>>

\* lines 360-379 without the comparison with emptyMessageSignature of line 368
HashNotSignedNoSentinel(t) ==
    \/ ~t.hasSC
    \/ isSingleSig(t) /\ t.signature = <<>>
    \/ ~isSingleSig(t) /\ Len(t.fields) = 0

\* lines 360-379: the three ways a transaction counts as not signed
HashNotSigned(t) ==
    \/ ~t.hasSC
    \/ /\ isSingleSig(t)
       /\ (t.signature = <<>> \/ emptyMessageSignature = t.signature)
    \/ /\ ~isSingleSig(t)
       /\ Len(t.fields) = 0

\* lines 360-386
HashRespond ==
    /\ pc = "hash_signed"
    /\ IF HashNotSigned(transaction)
       THEN Send(Err("transactionNotSigned"), "done")
       ELSE Send([status |-> 200, error |-> "",
                  transaction_identifier |-> [hash |-> <<"0x">> \o local]], "done")
    /\ UNCHANGED <<flow, req, transaction, preSignHash, newSignature, calls, local>>

Hash == HashValidate \/ HashDecode \/ HashDeserialize \/ HashRespond

-----------------------------------------------------------------------------
(* Addresses *)

\* RosettaConstants.symbol and RosettaConstants.decimals
RosettaSymbol == "STX"

RosettaDecimals == 6

Networks == {"mainnet", "testnet"}

\* the version prefix of a c32 address on a network
C32Version(network) == IF network = "mainnet" THEN "SP" ELSE "ST"

\* the legacy version byte of a network
BtcVersion(network) == IF network = "mainnet" THEN "1" ELSE "m"

\* hash160 of a public key
Hash160(k) == ByteOf((NumOf(k) + 1) % 4)

\* rosetta-helpers.publicKeyToBitcoinAddress throws when the bytes are no
\* point of the curve
PublicKeyThrows(hex) == ~(Len(hex) = 1 /\ hex[1] \in ValidKey)

\* rosetta-helpers.publicKeyToBitcoinAddress: undefined (the empty string
\* here) on a network with no legacy address format
publicKeyToBitcoinAddress(hex, network) ==
    IF network \notin Networks THEN <<>>
    ELSE <<BtcVersion(network), Hash160(hex[1])>>

\* rosetta-helpers.bitcoinAddressToSTXAddress
bitcoinAddressToSTXAddress(btc) ==
    <<IF btc[1] = "1" THEN "SP" ELSE "ST", btc[2]>>

\* helpers.isValidC32Address
isValidC32Address(a) == Len(a) = 2 /\ a[1] \in {"SP", "ST"} /\ a[2] \in Byte

\* the address of a public key, as derive computes it
AddressOf(k, network) ==
    bitcoinAddressToSTXAddress(publicKeyToBitcoinAddress(<<k>>, network))

-----------------------------------------------------------------------------
(* POST /metadata *)

\* lines 290-292 (and 161-163) with the prefix left on the key
StripKeyNot(key) == key

\* lines 290-292
StripKey(key) ==
    IF has0xPrefix(key.hex_bytes) THEN [key EXCEPT !.hex_bytes = Replace0x(@)] ELSE key

\* lines 287-313: the public key that is compared with the sender address
MetadataKeyError(request) ==
    IF Len(request.public_keys) > 0
    THEN LET publicKey == StripKey(request.public_keys[1])
             network == request.network_identifier.network
         IN  IF PublicKeyThrows(publicKey.hex_bytes) THEN "invalidPublicKey"
             ELSE IF publicKeyToBitcoinAddress(publicKey.hex_bytes, network) = <<>>
             THEN "invalidPublicKey"
             ELSE IF bitcoinAddressToSTXAddress(
                         publicKeyToBitcoinAddress(publicKey.hex_bytes, network))
                     # request.options.sender_address
             THEN "invalidPublicKey"
             ELSE ""
    ELSE ""

\* lines 260-313 with the recipient check of lines 282-285 moved behind the
\* account lookup, where it no longer stops the request
MetadataErrorLateRecipient(request) ==
    LET options == request.options
    IN  IF options.type # "token_transfer" THEN "invalidTransactionType"
        ELSE IF options.sender_address # <<>> /\ ~isValidC32Address(options.sender_address)
        THEN "invalidSender"
        ELSE IF options.symbol # RosettaSymbol THEN "invalidCurrencySymbol"
        ELSE IF options.decimals # <<RosettaDecimals>> THEN "invalidCurrencyDecimals"
        ELSE MetadataKeyError(request)

\* lines 260-313: the first failing check, or "" when all pass
MetadataError(request) ==
    LET options == request.options
    IN  IF options.type # "token_transfer" THEN "invalidTransactionType"
        ELSE IF options.sender_address # <<>> /\ ~isValidC32Address(options.sender_address)
        THEN "invalidSender"
        ELSE IF options.symbol # RosettaSymbol THEN "invalidCurrencySymbol"
        ELSE IF options.decimals # <<RosettaDecimals>> THEN "invalidCurrencyDecimals"
        ELSE IF ~isValidC32Address(options.token_transfer_recipient_address)
        THEN "invalidRecipient"
        ELSE MetadataKeyError(request)

\* lines 254-258
MetadataValidate ==
    /\ pc = "metadata"
    /\ IF ~req.schemaValid THEN Send(SchemaError, "done") ELSE Goto("metadata_check")
    /\ UNCHANGED <<flow, req, transaction, preSignHash, newSignature, calls, local>>

\* lines 260-313
MetadataCheck ==
    /\ pc = "metadata_check"
    /\ IF MetadataError(req) # ""
       THEN Send(Err(MetadataError(req)), "done")
       ELSE Goto("metadata_account")
    /\ req' = IF MetadataError(req) \in {"", "invalidPublicKey"}
                 /\ Len(req.public_keys) > 0
              THEN [req EXCEPT !.public_keys[1] = StripKey(@)]
              ELSE req
    /\ UNCHANGED <<flow, transaction, preSignHash, newSignature, calls, local>>

\* lines 315-316: the account service answers with a nonce, or fails
MetadataGetAccount ==
    /\ pc = "metadata_account"
    /\ \E answer \in (0..MaxNonce) \cup {-1} :
          /\ calls' = Append(calls, [call |-> "getAccount", returned |-> answer >= 0,
                           arg |-> req.options.token_transfer_recipient_address,
                           result |-> <<answer>>])
          /\ IF answer < 0
             THEN Throw /\ UNCHANGED local
             ELSE Goto("metadata_block") /\ local' = <<answer>>
    /\ UNCHANGED <<flow, req, transaction, preSignHash, newSignature>>

\* the block hashes the datastore may hold; <<>> is recentBlockHash undefined
BlockHashes == {<<>>, <<"0x", "03">>}

\* lines 324-330 without the spread of the options
MetadataBodyNoSpread(options, nonce, recentBlockHash) ==
    [account_sequence |-> <<nonce>>, recent_block_hash |-> recentBlockHash]

\* lines 324-330: { ...options, account_sequence, recent_block_hash }
MetadataBody(options, nonce, recentBlockHash) ==
    [k \in DOMAIN options \cup {"account_sequence", "recent_block_hash"} |->
        IF k = "account_sequence" THEN <<nonce>>
        ELSE IF k = "recent_block_hash" THEN recentBlockHash
        ELSE options[k]]

\* lines 318-332 with a write to the datastore in place of the read of line 319
MetadataRespondWrites ==
    /\ pc = "metadata_block"
    /\ \E recentBlockHash \in BlockHashes :
          /\ calls' = Append(calls, [call |-> "updateBlock", returned |-> TRUE,
                                     arg |-> <<>>, result |-> recentBlockHash])
          /\ Send([status |-> 200, error |-> "",
                   metadata |-> MetadataBody(req.options, local[1], recentBlockHash)],
                  "done")
    /\ UNCHANGED <<flow, req, transaction, preSignHash, newSignature, local>>

\* lines 318-332
MetadataRespond ==
    /\ pc = "metadata_block"
    /\ \E recentBlockHash \in BlockHashes :
          /\ calls' = Append(calls, [call |-> "getCurrentBlock", returned |-> TRUE,
                                     arg |-> <<>>, result |-> recentBlockHash])
          /\ Send([status |-> 200, error |-> "",
                   metadata |-> MetadataBody(req.options, local[1], recentBlockHash)],
                  "done")
    /\ UNCHANGED <<flow, req, transaction, preSignHash, newSignature, local>>

Metadata == MetadataValidate \/ MetadataCheck \/ MetadataGetAccount \/ MetadataRespond

-----------------------------------------------------------------------------
(* POST /derive *)

\* lines 148-156: on a curve-type schema error invalidCurveType is sent, and
\* line 154 follows without a return
DeriveValidate ==
    /\ pc = "derive"
    /\ IF ~req.schemaValid
       THEN IF req.schemaEnumError
            THEN Send(Err("invalidCurveType"), "derive_schema")
            ELSE Send(SchemaError, "done")
       ELSE Goto("derive_address")
    /\ UNCHANGED <<flow, req, transaction, preSignHash, newSignature, calls, local>>

\* line 154, reached after line 152
DeriveSchemaError ==
    /\ pc = "derive_schema"
    /\ Send(SchemaError, "done")
    /\ UNCHANGED <<flow, req, transaction, preSignHash, newSignature, calls, local>>

\* lines 165-179: the answer for a public key with its prefix removed
DeriveAnswer(publicKey, network) ==
    IF PublicKeyThrows(publicKey.hex_bytes) THEN Err("invalidPublicKey")
    ELSE IF publicKeyToBitcoinAddress(publicKey.hex_bytes, network) = <<>>
    THEN Err("invalidPublicKey")
    ELSE [status |-> 200, error |-> "",
          address |-> bitcoinAddressToSTXAddress(
                          publicKeyToBitcoinAddress(publicKey.hex_bytes, network))]

\* lines 158-179
DeriveAddress ==
    /\ pc = "derive_address"
    /\ req' = [req EXCEPT !.public_key = StripKey(@)]
    /\ Send(DeriveAnswer(StripKey(req.public_key), req.network_identifier.network), "done")
    /\ UNCHANGED <<flow, transaction, preSignHash, newSignature, calls, local>>

Derive == DeriveValidate \/ DeriveSchemaError \/ DeriveAddress

-----------------------------------------------------------------------------
(* Operations *)

\* the value of the last operation that satisfies P, <<>> when none does
LastOf(ops, P(_), F(_)) ==
    LET S == {i \in 1..Len(ops) : P(ops[i])}
    IN  IF S = {} THEN <<>> ELSE F(ops[CHOOSE i \in S : \A j \in S : j <= i])

OperationTypes == {"token_transfer", "fee"}

Abs(n) == IF n < 0 THEN 0 - n ELSE n

\* rosetta-helpers.isSymbolSupported
isSymbolSupported(ops) == \A i \in 1..Len(ops) : ops[i].symbol = RosettaSymbol

\* rosetta-helpers.isDecimalsSupported
isDecimalsSupported(ops) == \A i \in 1..Len(ops) : ops[i].decimals = RosettaDecimals

\* rosetta-helpers.getOptionsFromOperations answers null for an operation that
\* is no part of a transfer
OptionsAreNull(ops) == \E i \in 1..Len(ops) : ops[i].type \notin OperationTypes

\* rosetta-helpers.getOptionsFromOperations: the debit names the sender, the
\* credit the recipient and the amount, the fee operation the fee
getOptionsFromOperations(ops) ==
    LET IsFee(o) == o.type = "fee"
        IsDebit(o) == o.type = "token_transfer" /\ o.value < 0
        IsCredit(o) == o.type = "token_transfer" /\ o.value >= 0
        Address(o) == o.address
        Value(o) == <<Abs(o.value)>>
        Symbol(o) == o.symbol
        Decimals(o) == <<o.decimals>>
    IN  [type |-> "token_transfer",
         sender_address |-> LastOf(ops, IsDebit, Address),
         token_transfer_recipient_address |-> LastOf(ops, IsCredit, Address),
         symbol |-> IF \E i \in 1..Len(ops) : IsCredit(ops[i])
                    THEN LastOf(ops, IsCredit, Symbol) ELSE "",
         decimals |-> LastOf(ops, IsCredit, Decimals),
         amount |-> LastOf(ops, IsCredit, Value),
         fee |-> LastOf(ops, IsFee, Value),
         max_fee |-> <<>>, gas_limit |-> <<>>, gas_price |-> <<>>,
         suggested_fee_multiplier |-> <<>>]

\* a JavaScript value is truthy: present, and not the number 0
Truthy(v) == v # <<>> /\ v # <<0>>

-----------------------------------------------------------------------------
(* POST /preprocess *)

\* lines 214-226: the overrides are read inside the test of body.metadata
PreprocessOverrides(options, body) ==
    IF body.has_metadata
    THEN [options EXCEPT
             !.gas_limit = IF Truthy(body.metadata.gas_limit)
                           THEN body.metadata.gas_limit ELSE @,
             !.gas_price = IF Truthy(body.metadata.gas_price)
                           THEN body.metadata.gas_price ELSE @,
             !.suggested_fee_multiplier =
                 IF Truthy(body.suggested_fee_multiplier)
                 THEN body.suggested_fee_multiplier ELSE @]
    ELSE options

\* lines 228-239: max_fee[0] has the native currency
MaxFeeAccepted(body) ==
    /\ body.max_fee[1].symbol = RosettaSymbol
    /\ body.max_fee[1].decimals = RosettaDecimals

\* lines 190-239: the first failing check, or "" when all pass
PreprocessError(body) ==
    IF Len(body.operations) # 3 THEN "invalidOperation"
    ELSE IF ~isSymbolSupported(body.operations) THEN "invalidCurrencySymbol"
    ELSE IF ~isDecimalsSupported(body.operations) THEN "invalidCurrencyDecimals"
    ELSE IF OptionsAreNull(body.operations) THEN "invalidOperation"
    ELSE IF body.max_fee # <<>> /\ ~MaxFeeAccepted(body) THEN "invalidFee"
    ELSE ""

\* lines 208-234: the options of the response
PreprocessOptions(body) ==
    LET options == PreprocessOverrides(getOptionsFromOperations(body.operations), body)
    IN  IF body.max_fee # <<>>
        THEN [options EXCEPT !.max_fee = <<body.max_fee[1].value>>]
        ELSE options

\* lines 184-188
PreprocessValidate ==
    /\ pc = "preprocess"
    /\ IF ~req.schemaValid THEN Send(SchemaError, "done") ELSE Goto("preprocess_check")
    /\ UNCHANGED <<flow, req, transaction, preSignHash, newSignature, calls, local>>

\* lines 190-249
PreprocessRespond ==
    /\ pc = "preprocess_check"
    /\ IF PreprocessError(req) # ""
       THEN Send(Err(PreprocessError(req)), "done")
       ELSE Send([status |-> 200, error |-> "",
                  options |-> PreprocessOptions(req),
                  required_public_keys |->
                      <<[address |-> PreprocessOptions(req).sender_address]>>], "done")
    /\ UNCHANGED <<flow, req, transaction, preSignHash, newSignature, calls, local>>

Preprocess == PreprocessValidate \/ PreprocessRespond

-----------------------------------------------------------------------------
(* POST /parse *)

\* rosetta-helpers.isSignedTransaction: a single-signature condition with a
\* signature that is present and not the empty sentinel, or a multi-signature
\* condition with at least one authorization field
isSignedTransaction(t) ==
    /\ t.hasSC
    /\ IF isSingleSig(t)
       THEN t.signature # <<>> /\ t.signature # emptyMessageSignature
       ELSE Len(t.fields) > 0

\* the address of the account a spending condition names
SignerAddress(t) == <<C32Version("testnet"), t.signer>>

\* rosetta-helpers.getOperations(rawTxToBaseTx(tx)): fee debit, sender debit,
\* recipient credit
getOperations(t) ==
    <<[type |-> "fee", address |-> SignerAddress(t), value |-> 0 - t.fee,
       symbol |-> RosettaSymbol, decimals |-> RosettaDecimals],
      [type |-> "token_transfer", address |-> SignerAddress(t), value |-> 0 - t.amount,
       symbol |-> RosettaSymbol, decimals |-> RosettaDecimals],
      [type |-> "token_transfer", address |-> <<C32Version("testnet"), t.recipient>>,
       value |-> t.amount, symbol |-> RosettaSymbol, decimals |-> RosettaDecimals]>>

\* rosetta-helpers.getSigners
getSigners(t) == <<[address |-> SignerAddress(t)]>>

\* lines 391-401
ParseValidate ==
    /\ pc = "parse"
    /\ IF ~req.schemaValid
       THEN Send(SchemaError, "done") /\ UNCHANGED local
       ELSE /\ Goto("parse_deserialize")
            /\ local' = IF has0xPrefix(req.transaction)
                        THEN req.transaction ELSE <<"0x">> \o req.transaction
    /\ UNCHANGED <<flow, req, transaction, preSignHash, newSignature, calls>>

\* lines 403-408: rawTxToStacksTransaction is called outside the try block
ParseDeserialize ==
    /\ pc = "parse_deserialize"
    /\ IF HexToBufferThrows(local) \/ DeserializeThrows(HexToBuffer(local))
       THEN Throw /\ UNCHANGED transaction
       ELSE /\ transaction' = Deserialize(HexToBuffer(local))
            /\ IF req.signed # isSignedTransaction(Deserialize(HexToBuffer(local)))
               THEN Send(Err("invalidParams"), "done")
               ELSE Goto("parse_operations")
    /\ UNCHANGED <<flow, req, preSignHash, newSignature, calls, local>>

\* lines 412-421 with the signers returned whatever the signed flag
ParseAnswerAlwaysSigners(t, signed) ==
    [status |-> 200, error |-> "", operations |-> getOperations(t),
     account_identifier_signers |-> getSigners(t)]

\* lines 412-421
ParseAnswer(t, signed) ==
    IF signed
    THEN [status |-> 200, error |-> "", operations |-> getOperations(t),
          account_identifier_signers |-> getSigners(t)]
    ELSE [status |-> 200, error |-> "", operations |-> getOperations(t)]

\* lines 409-425: an exception of getOperations, rawTxToBaseTx or getSigners
\* is logged by the catch block, which sends nothing
ParseRespond ==
    /\ pc = "parse_operations"
    /\ \E helperThrows \in BOOLEAN :
          IF helperThrows
          THEN pc' = "done" /\ UNCHANGED <<responses, threw>>
          ELSE Send(ParseAnswer(transaction, req.signed), "done")
    /\ UNCHANGED <<flow, req, transaction, preSignHash, newSignature, calls, local>>

Parse == ParseValidate \/ ParseDeserialize \/ ParseRespond

-----------------------------------------------------------------------------
(* POST /submit *)

\* lines 430-440
SubmitValidate ==
    /\ pc = "submit"
    /\ IF ~req.schemaValid
       THEN Send(SchemaError, "done") /\ UNCHANGED local
       ELSE /\ Goto("submit_decode")
            /\ local' = IF has0xPrefix(req.signed_transaction)
                        THEN req.signed_transaction
                        ELSE <<"0x">> \o req.signed_transaction
    /\ UNCHANGED <<flow, req, transaction, preSignHash, newSignature, calls>>

\* lines 442-447 without the return of line 446 taken: every string goes on
\* to the broadcast
SubmitDecodeNoCheck ==
    /\ pc = "submit_decode"
    /\ Goto("submit_send")
    /\ UNCHANGED <<flow, req, transaction, preSignHash, newSignature, calls, local>>

\* lines 442-447
SubmitDecode ==
    /\ pc = "submit_decode"
    /\ IF HexToBufferThrows(local)
       THEN Send(Err("invalidTransactionString"), "done")
       ELSE Goto("submit_send")
    /\ UNCHANGED <<flow, req, transaction, preSignHash, newSignature, calls, local>>

\* the identifiers the broadcast service may answer with
TxIds == {<<"0x", "01">>, <<"0x", "02">>}

\* lines 448-458: the broadcast service answers with an identifier, or fails
SubmitSend ==
    /\ pc = "submit_send"
    /\ \E answer \in TxIds \cup {<<>>} :
          /\ calls' = Append(calls, [call |-> "sendTransaction",
                                     returned |-> answer # <<>>,
                                     arg |-> HexToBuffer(local), result |-> answer])
          /\ IF answer = <<>>
             THEN Send(Err("invalidTransactionString"), "done")
             ELSE Send([status |-> 200, error |-> "",
                        transaction_identifier |-> [hash |-> answer]], "done")
    /\ UNCHANGED <<flow, req, transaction, preSignHash, newSignature, local>>

Submit == SubmitValidate \/ SubmitDecode \/ SubmitSend

-----------------------------------------------------------------------------
(* POST /payloads *)

\* lines 469-497 with the sender test of lines 500-503 left out
PayloadsErrorNoSender(body) ==
    LET options == getOptionsFromOperations(body.operations)
    IN  IF OptionsAreNull(body.operations) THEN "invalidOperation"
        ELSE IF options.amount = <<>> THEN "invalidAmount"
        ELSE IF options.fee = <<>> THEN "invalidFees"
        ELSE IF ~body.has_public_keys THEN "emptyPublicKey"
        ELSE IF options.token_transfer_recipient_address = <<>> THEN "invalidRecipient"
        ELSE ""

\* lines 469-503: the first failing check, or "" when all pass
PayloadsError(body) ==
    LET options == getOptionsFromOperations(body.operations)
    IN  IF OptionsAreNull(body.operations) THEN "invalidOperation"
        ELSE IF options.amount = <<>> THEN "invalidAmount"
        ELSE IF options.fee = <<>> THEN "invalidFees"
        ELSE IF ~body.has_public_keys THEN "emptyPublicKey"
        ELSE IF options.token_transfer_recipient_address = <<>> THEN "invalidRecipient"
        ELSE IF options.sender_address = <<>> THEN "invalidSender"
        ELSE ""

\* lines 464-467
PayloadsValidate ==
    /\ pc = "payloads"
    /\ IF ~req.schemaValid THEN Send(SchemaError, "done") ELSE Goto("payloads_check")
    /\ UNCHANGED <<flow, req, transaction, preSignHash, newSignature, calls, local>>

\* lines 469-503
PayloadsCheck ==
    /\ pc = "payloads_check"
    /\ IF PayloadsError(req) # ""
       THEN Send(Err(PayloadsError(req)), "done")
       ELSE Goto("payloads_account")
    /\ UNCHANGED <<flow, req, transaction, preSignHash, newSignature, calls, local>>

\* line 505: the account service answers with a nonce, with none, or fails
PayloadsGetAccount ==
    /\ pc = "payloads_account"
    /\ \E answer \in {<<n>> : n \in 0..MaxNonce} \cup {<<>>, <<-1>>} :
          /\ calls' = Append(calls, [call |-> "getAccount", returned |-> answer # <<-1>>,
                  arg |-> getOptionsFromOperations(req.operations).sender_address,
                  result |-> answer])
          /\ IF answer = <<-1>>
             THEN Throw /\ UNCHANGED local
             ELSE Goto("payloads_build") /\ local' = answer
    /\ UNCHANGED <<flow, req, transaction, preSignHash, newSignature>>

\* lines 525 and 538 with the looked-up nonce ignored
NonceAlwaysZero(accountNonce) == 0

\* lines 525 and 538: accountInfo.nonce ? new BN(accountInfo.nonce) : new BN(0)
NonceOf(accountNonce) == IF Truthy(accountNonce) THEN accountNonce[1] ELSE 0

\* the signer hash of a spending condition made from public-key bytes
SignerOf(hex) == IF Len(hex) = 1 /\ hex[1] \in Byte THEN Hash160(hex[1]) ELSE "00"

\* makeUnsignedSTXTokenTransfer throws on a recipient that is no c32 address
MakeUnsignedThrows(o) == ~isValidC32Address(o.recipient)

\* makeUnsignedSTXTokenTransfer(tokenTransferOptions)
makeUnsignedSTXTokenTransfer(o) ==
    [hasSC |-> TRUE, mode |-> "single", signer |-> SignerOf(o.publicKey),
     nonce |-> o.nonce, fee |-> o.fee, signature |-> emptyMessageSignature,
     fields |-> <<>>, recipient |-> o.recipient[2], amount |-> o.amount]

\* lines 519-526
TokenTransferOptions(body, accountNonce) ==
    LET options == getOptionsFromOperations(body.operations)
    IN  [recipient |-> options.token_transfer_recipient_address,
         amount |-> options.amount[1], fee |-> options.fee[1],
         publicKey |-> body.public_keys[1].hex_bytes,
         nonce |-> NonceOf(accountNonce)]

\* lines 529-550 with the payload hashed over nonce 0 instead of the nonce of
\* line 538
PayloadsAnswerZeroNonce(body, accountNonce) ==
    LET options == getOptionsFromOperations(body.operations)
        tx == makeUnsignedSTXTokenTransfer(TokenTransferOptions(body, accountNonce))
        prehash == makeSigHashPreSign(signBegin(tx), AuthStandard, options.fee[1], 0)
    IN  [status |-> 200, error |-> "",
         unsigned_transaction |-> <<"0x">> \o Serialize(tx),
         payloads |-> <<[address |-> options.sender_address, hex_bytes |-> prehash,
                         signature_type |-> "ecdsa_recovery"]>>]

\* lines 529-550
PayloadsAnswer(body, accountNonce) ==
    LET options == getOptionsFromOperations(body.operations)
        tx == makeUnsignedSTXTokenTransfer(TokenTransferOptions(body, accountNonce))
        prehash == makeSigHashPreSign(signBegin(tx), AuthStandard, options.fee[1],
                                      NonceOf(accountNonce))
    IN  [status |-> 200, error |-> "",
         unsigned_transaction |-> <<"0x">> \o Serialize(tx),
         payloads |-> <<[address |-> options.sender_address, hex_bytes |-> prehash,
                         signature_type |-> "ecdsa_recovery"]>>]

\* lines 507-551 with the test of line 509 letting a longer list through
PayloadsBuildAtLeastOneKey ==
    /\ pc = "payloads_build"
    /\ IF Len(req.public_keys) < 1
       THEN Send(Err("needOnePublicKey"), "done") /\ UNCHANGED transaction
       ELSE IF req.public_keys[1].curve_type # "secp256k1"
       THEN Send(Err("invalidCurveType"), "done") /\ UNCHANGED transaction
       ELSE IF MakeUnsignedThrows(TokenTransferOptions(req, local))
       THEN Throw /\ UNCHANGED transaction
       ELSE /\ transaction' = makeUnsignedSTXTokenTransfer(TokenTransferOptions(req, local))
            /\ Send(PayloadsAnswer(req, local), "done")
    /\ UNCHANGED <<flow, req, preSignHash, newSignature, calls, local>>

\* lines 507-551
PayloadsBuild ==
    /\ pc = "payloads_build"
    /\ IF Len(req.public_keys) # 1
       THEN Send(Err("needOnePublicKey"), "done") /\ UNCHANGED transaction
       ELSE IF req.public_keys[1].curve_type # "secp256k1"
       THEN Send(Err("invalidCurveType"), "done") /\ UNCHANGED transaction
       ELSE IF MakeUnsignedThrows(TokenTransferOptions(req, local))
       THEN Throw /\ UNCHANGED transaction
       ELSE /\ transaction' = makeUnsignedSTXTokenTransfer(TokenTransferOptions(req, local))
            /\ Send(PayloadsAnswer(req, local), "done")
    /\ UNCHANGED <<flow, req, preSignHash, newSignature, calls, local>>

Payloads == PayloadsValidate \/ PayloadsCheck \/ PayloadsGetAccount \/ PayloadsBuild

-----------------------------------------------------------------------------
(* Requests *)

\* a transfer as payloads builds it: one recipient, one amount, one fee
BaseTx(mode, nonce, signature, fields) ==
    [hasSC |-> TRUE, mode |-> mode, signer |-> "01", nonce |-> nonce, fee |-> 1,
     signature |-> signature, fields |-> fields, recipient |-> "02", amount |-> 1]

\* unsigned transactions: the signature slot empty, no authorization field
UnsignedTxs ==
    {BaseTx("single", n, emptyMessageSignature, <<>>) : n \in 0..MaxNonce}
    \cup {BaseTx("multi", n, <<>>, <<>>) : n \in 0..MaxNonce}

\* transactions with a populated signature slot or authorization field
SignedTxs ==
    {BaseTx("single", n, SignatureOf(k, d, "00"), <<>>) :
         n \in 0..MaxNonce, k \in ValidKey, d \in {"01", "02"}}
    \cup {BaseTx("multi", 0, <<>>, Rep(n, "03")) : n \in 1..(MaxList - 1)}

\* strings that are no transaction: not hexadecimal, and cut short
BadTxStrings == {<<"0x", "zz">>, <<AuthStandard, "00">>}

TxStrings(txs) ==
    {Serialize(t) : t \in txs} \cup {<<"0x">> \o Serialize(t) : t \in txs}
    \cup BadTxStrings

\* signature strings: leading and trailing recovery byte, a wrong length, no signature
SignatureStrings ==
    {SignatureOf(k, d, "00") : k \in ValidKey, d \in {"01", "02"}}
    \cup {Tail(SignatureOf(k, d, v)) \o <<v>> :
              k \in ValidKey, d \in {"01", "02"}, v \in {"00", "01"}}
    \cup {Rep(3, "01"), emptyMessageSignature}

PayloadStrings == {<<"01">>, <<"02">>, <<"0x", "01">>}

KeyStrings == {<<"01">>, <<"02">>, <<"0x", "01">>}

CurveTypes == {"secp256k1", "edwards25519"}

RosettaSignatures ==
    [hex_bytes : SignatureStrings,
     signing_payload : [hex_bytes : PayloadStrings],
     public_key : [hex_bytes : KeyStrings, curve_type : CurveTypes]]

\* the handlers read signatures[0] and the length of the list only
OtherSignature ==
    [hex_bytes |-> emptyMessageSignature,
     signing_payload |-> [hex_bytes |-> <<"01">>],
     public_key |-> [hex_bytes |-> <<"01">>, curve_type |-> "secp256k1"]]

SignatureLists ==
    {<<>>} \cup {<<s>> \o Rep(n, OtherSignature) :
                     s \in RosettaSignatures, n \in 0..(MaxList - 1)}

CombineRequests ==
    [endpoint : {"combine"}, schemaValid : BOOLEAN,
     unsigned_transaction : TxStrings(UnsignedTxs), signatures : SignatureLists]

HashRequests ==
    [endpoint : {"hash"}, schemaValid : BOOLEAN,
     signed_transaction : TxStrings(UnsignedTxs \cup SignedTxs)]

-----------------------------------------------------------------------------
(* Specifications *)

InitWith(requests) ==
    /\ req \in requests
    /\ pc = req.endpoint
    /\ responses = <<>>
    /\ threw = FALSE
    /\ transaction = NoTx
    /\ preSignHash = <<>>
    /\ newSignature = <<>>
    /\ calls = <<>>
    /\ local = <<>>
    /\ flow = <<>>

InitCombine == InitWith(CombineRequests)

SpecCombine == InitCombine /\ [][Combine]_vars

InitHash == InitWith(HashRequests)

SpecHash == InitHash /\ [][Hash]_vars

\* the sender and recipient addresses a request may name: none, a well-formed
\* one per key, a malformed one
AddressStrings == {<<>>, <<"ST", "zz">>} \cup {AddressOf(k, "testnet") : k \in ValidKey}

RosettaPublicKeys ==
    [hex_bytes : KeyStrings \cup {<<"00">>}, curve_type : CurveTypes]

\* the handlers read public_keys[0] and the length of the list only
OtherPublicKeys == [hex_bytes : {<<"01">>, <<"02">>}, curve_type : {"secp256k1"}]

PublicKeyLists ==
    {<<>>} \cup {<<k>> : k \in RosettaPublicKeys}
    \cup {<<k>> \o Rep(n, o) : k \in RosettaPublicKeys, o \in OtherPublicKeys,
                               n \in 1..(MaxList - 1)}

\* RosettaOptions: an absent key is the empty string or the empty sequence
RosettaOptions ==
    [type : {"token_transfer", "contract_call"},
     sender_address : AddressStrings,
     token_transfer_recipient_address : AddressStrings,
     symbol : {RosettaSymbol, "BTC"},
     decimals : {<<RosettaDecimals>>, <<8>>},
     amount : {<<1>>}, fee : {<<1>>}, max_fee : {<<>>},
     gas_limit : {<<>>}, gas_price : {<<>>}, suggested_fee_multiplier : {<<>>}]

MetadataRequests ==
    [endpoint : {"metadata"}, schemaValid : BOOLEAN,
     network_identifier : [network : {"testnet"}],
     options : RosettaOptions, public_keys : PublicKeyLists]

InitMetadata == InitWith(MetadataRequests)

SpecMetadata == InitMetadata /\ [][Metadata]_vars

DeriveRequests ==
    [endpoint : {"derive"}, schemaValid : BOOLEAN, schemaEnumError : BOOLEAN,
     network_identifier : [network : Networks \cup {"regtest"}],
     public_key : RosettaPublicKeys]

InitDerive == InitWith(DeriveRequests)

SpecDerive == InitDerive /\ [][Derive]_vars

Operation(type, address, value, symbol, decimals) ==
    [type |-> type, address |-> address, value |-> value, symbol |-> symbol,
     decimals |-> decimals]

\* the three operations of a transfer of 1 with fee 1 from the account of key
\* 01 to the account of key 02
Transfer(symbol, decimals) ==
    <<Operation("token_transfer", AddressOf("01", "testnet"), -1, symbol, decimals),
      Operation("token_transfer", AddressOf("02", "testnet"), 1, symbol, decimals),
      Operation("fee", AddressOf("01", "testnet"), -1, symbol, decimals)>>

\* operation lists: the transfer, in another currency, shortened, lengthened,
\* with an operation of another kind, with a malformed recipient
OperationLists ==
    {Transfer(s, d) : s \in {RosettaSymbol, "BTC"}, d \in {RosettaDecimals, 8}}
    \cup {SubSeq(Transfer(RosettaSymbol, RosettaDecimals), 1, n) : n \in 0..2}
    \cup {SubSeq(Transfer(RosettaSymbol, RosettaDecimals), 2, 3)}
    \cup {Transfer(RosettaSymbol, RosettaDecimals)
              \o <<Operation("fee", AddressOf("01", "testnet"), -2, RosettaSymbol,
                             RosettaDecimals)>>}
    \cup {[Transfer(s, RosettaDecimals) EXCEPT ![3].type = "stake"] :
              s \in {RosettaSymbol, "BTC"}}
    \cup {[Transfer(RosettaSymbol, RosettaDecimals) EXCEPT ![2].address = <<"ST", "zz">>]}

Overrides == {<<>>, <<0>>, <<2>>}

MaxFees ==
    {<<>>} \cup {<<[value |-> 3, symbol |-> s, decimals |-> d]>> :
                     s \in {RosettaSymbol, "BTC"}, d \in {RosettaDecimals, 8}}

PreprocessRequests ==
    [endpoint : {"preprocess"}, schemaValid : BOOLEAN,
     operations : OperationLists,
     has_metadata : BOOLEAN,
     metadata : [gas_limit : Overrides, gas_price : {<<>>, <<2>>}],
     suggested_fee_multiplier : Overrides,
     max_fee : MaxFees]

InitPreprocess == InitWith(PreprocessRequests)

SpecPreprocess == InitPreprocess /\ [][Preprocess]_vars

ParseRequests ==
    [endpoint : {"parse"}, schemaValid : BOOLEAN, signed : BOOLEAN,
     transaction : TxStrings(UnsignedTxs \cup SignedTxs)]

InitParse == InitWith(ParseRequests)

SpecParse == InitParse /\ [][Parse]_vars

SubmitRequests ==
    [endpoint : {"submit"}, schemaValid : BOOLEAN,
     signed_transaction : TxStrings(UnsignedTxs \cup SignedTxs)]

InitSubmit == InitWith(SubmitRequests)

SpecSubmit == InitSubmit /\ [][Submit]_vars

\* the metadata object a payloads request carries: what metadata answered, with
\* its account_sequence, or nothing
PayloadsMetadata == [account_sequence : {<<>>} \cup {<<n>> : n \in 0..MaxNonce}]

PayloadsRequests ==
    [endpoint : {"payloads"}, schemaValid : BOOLEAN,
     operations : OperationLists, metadata : PayloadsMetadata,
     has_public_keys : {TRUE}, public_keys : PublicKeyLists]
    \cup [endpoint : {"payloads"}, schemaValid : BOOLEAN,
          operations : OperationLists, metadata : PayloadsMetadata,
          has_public_keys : {FALSE}, public_keys : {<<>>}]

InitPayloads == InitWith(PayloadsRequests)

SpecPayloads == InitPayloads /\ [][Payloads]_vars

\* the client hands the signed transaction combine answered to hash, the
\* next call of the construction flow
ClientHashesCombined ==
    /\ pc = "done"
    /\ req.endpoint = "combine"
    /\ responses # <<>>
    /\ responses[1].status = 200
    /\ flow' = Append(flow, [request |-> req, response |-> responses[1]])
    /\ req' = [endpoint |-> "hash", schemaValid |-> TRUE,
               signed_transaction |-> responses[1].signed_transaction]
    /\ pc' = "hash"
    /\ responses' = <<>>
    /\ threw' = FALSE
    /\ transaction' = NoTx
    /\ preSignHash' = <<>>
    /\ newSignature' = <<>>
    /\ calls' = <<>>
    /\ local' = <<>>

SpecCombineHash == InitCombine /\ [][Combine \/ ClientHashesCombined \/ Hash]_vars

\* any request to any of the eight endpoints
Requests ==
    DeriveRequests \cup PreprocessRequests \cup MetadataRequests \cup PayloadsRequests
    \cup CombineRequests \cup HashRequests \cup ParseRequests \cup SubmitRequests

Init == InitWith(Requests)

Next ==
    \/ Derive
    \/ Preprocess
    \/ Metadata
    \/ Payloads
    \/ Combine
    \/ Hash
    \/ Parse
    \/ Submit

Spec == Init /\ [][Next]_vars

-----------------------------------------------------------------------------
(* Properties *)

Done == pc = "done"

Answered == responses # <<>>

\* the response the client receives
Answer == responses[1]

Succeeded == Answered /\ Answer.status = 200

ExternalCallsReturned == \A i \in 1..Len(calls) : calls[i].returned

\* combine: the unsigned transaction of the request, once it has been deserialized
CombineInput == Deserialize(HexToBuffer(req.unsigned_transaction))

\* combine: the signature was written into the single-signature slot
CombineWroteSignature ==
    /\ req.endpoint = "combine"
    /\ pc \in {"combine_respond", "done"}
    /\ newSignature # <<>>
    /\ isSingleSig(transaction)
    /\ transaction.signature = newSignature

\* C1: in combine, once the answer is SignatureNotVerified the handler has
\* stopped: it makes no further res.json call, and the transaction it holds is
\* still the deserialized unsigned transaction, with no signature written
C1_VerificationFailureStops ==
    (req.endpoint = "combine" /\ Answered /\ Answer = Err("signatureNotVerified"))
        => /\ Done
           /\ Len(responses) = 1
           /\ transaction = CombineInput

\* C2: in combine, a signature that verifies against the signing payload of
\* the request but not against the presign hash recomputed from the unsigned
\* transaction is never written into the transaction and never answered 200
C2_VerifiedAgainstPresignHash ==
    (/\ req.endpoint = "combine"
     /\ pc \in {"combine_splice", "combine_respond", "done"}
     /\ newSignature # <<>>
     /\ verifySignature(req.signatures[1].signing_payload.hex_bytes,
                        req.signatures[1].public_key.hex_bytes, newSignature)
     /\ ~verifySignature(makePresignHash(CombineInput),
                         req.signatures[1].public_key.hex_bytes, newSignature))
        => ~CombineWroteSignature /\ ~Succeeded

\* C3: every handler makes at most one res.json call, and once a response is
\* sent the handler has ended
C3_OneResponseThenStop ==
    /\ Len(responses) <= 1
    /\ Answered => Done

\* C4: a handler whose external calls returned ends only after it has sent a
\* response, a success body or a structured error
C4_EveryRequestAnswered ==
    (Done /\ ExternalCallsReturned) => Answered

\* C5: combine answers an empty signature list NoSignatures; once it has
\* answered NeedOnlyOneSignature it has stopped, with no signature normalized
C5_ExactlyOneSignature ==
    /\ (req.endpoint = "combine" /\ Done /\ req.schemaValid /\ Len(req.signatures) = 0)
          => responses = <<Err("noSignatures")>>
    /\ (req.endpoint = "combine" /\ Answered /\ Answer = Err("needOnlyOneSignature"))
          => Done /\ Len(responses) = 1 /\ newSignature = <<>>

\* hash: the transaction the request names, once the prefix has been put on it
HashInput == Deserialize(HexToBuffer(req.signed_transaction))

\* the cases C6 lists as not signed
C6_NotSigned(t) ==
    \/ ~t.hasSC
    \/ t.mode = "single" /\ (t.signature = <<>> \/ t.signature = Rep(SIG_LENGTH_BYTES, "00"))
    \/ t.mode = "multi" /\ t.fields = <<>>

\* C6: hash, for a transaction that deserializes, answers TransactionNotSigned
\* exactly in the listed cases and otherwise 200 with '0x' + txid
C6_HashSignedCheck ==
    (req.endpoint = "hash" /\ Done /\ req.schemaValid
     /\ ~HexToBufferThrows(req.signed_transaction)
     /\ ~DeserializeThrows(HexToBuffer(req.signed_transaction)))
        => responses =
             <<IF C6_NotSigned(HashInput)
               THEN Err("transactionNotSigned")
               ELSE [status |-> 200, error |-> "",
                     transaction_identifier |->
                         [hash |-> <<"0x">> \o Digest(Serialize(HashInput))]]>>

\* C6 witness: a single-signature transaction with the empty-signature sentinel
\* was answered TransactionNotSigned
C6_Witness ==
    /\ req.endpoint = "hash" /\ Done /\ Answered
    /\ Answer = Err("transactionNotSigned")
    /\ transaction.mode = "single"
    /\ transaction.signature = emptyMessageSignature

\* C7: hash applied to a signed_transaction that combine answered with 200
\* answers 200 with the identifier recomputed from those bytes
C7_CombinedHashes ==
    (req.endpoint = "hash" /\ Done /\ flow # <<>>)
        => responses =
             <<[status |-> 200, error |-> "",
                transaction_identifier |->
                    [hash |-> <<"0x">> \o Digest(Tail(flow[1].response.signed_transaction))]]>>

\* C8: a successful combine on a single-signature transaction returns the input
\* with only the signature slot changed; the slot holds the submitted signature
\* in the leading form verifySignature reads, and is not empty
C8_OnlySignatureSlotChanges ==
    (req.endpoint = "combine" /\ Done /\ Succeeded /\ isSingleSig(CombineInput))
        => LET hex == req.signatures[1].hex_bytes
               raw == Tail(Answer.signed_transaction)
           IN  /\ ~DeserializeThrows(raw)
               /\ Deserialize(raw).signature \in
                      {hex, <<hex[Len(hex)]>> \o SubSeq(hex, 1, Len(hex) - 1)}
               /\ verifySignature(req.signatures[1].signing_payload.hex_bytes,
                                  req.signatures[1].public_key.hex_bytes,
                                  Deserialize(raw).signature)
               /\ Deserialize(raw).signature # emptyMessageSignature
               /\ [Deserialize(raw) EXCEPT !.signature = <<>>]
                      = [CombineInput EXCEPT !.signature = <<>>]

\* C8 witness: combine succeeded on a single-signature transaction with a
\* signature submitted in trailing form
C8_Witness ==
    /\ req.endpoint = "combine" /\ Done /\ Succeeded /\ isSingleSig(CombineInput)
    /\ Deserialize(Tail(Answer.signed_transaction)).signature # req.signatures[1].hex_bytes

\* the validations C9 lists (the handler has taken the prefix off the key)
C9_Valid ==
    /\ req.schemaValid
    /\ req.options.type = "token_transfer"
    /\ req.options.sender_address # <<>> => isValidC32Address(req.options.sender_address)
    /\ req.options.symbol = "STX"
    /\ req.options.decimals = <<6>>
    /\ isValidC32Address(req.options.token_transfer_recipient_address)
    /\ Len(req.public_keys) > 0 =>
          /\ ~PublicKeyThrows(req.public_keys[1].hex_bytes)
          /\ AddressOf(req.public_keys[1].hex_bytes[1], req.network_identifier.network)
                 = req.options.sender_address

\* C9: in metadata an external call is made only for a request that passed
\* every validation, and a rejected request has made none
C9_ValidationBeforeCalls ==
    req.endpoint = "metadata"
        => /\ calls # <<>> => C9_Valid
           /\ (Answered /\ Answer.status = 400) => calls = <<>>

\* C9 witness: a request that failed the last validation, the public-key
\* match, was rejected and made no external call
C9_Witness ==
    /\ req.endpoint = "metadata" /\ Done /\ Answered
    /\ Answer = Err("invalidPublicKey")
    /\ calls = <<>>

\* C10: metadata succeeds only if every supplied public key derives to the
\* sender address
C10_EveryKeyMatchesSender ==
    (req.endpoint = "metadata" /\ Succeeded)
        => \A i \in 1..Len(req.public_keys) :
              /\ ~PublicKeyThrows(req.public_keys[i].hex_bytes)
              /\ AddressOf(req.public_keys[i].hex_bytes[1], req.network_identifier.network)
                     = req.options.sender_address

-----------------------------------------------------------------------------
(* The construction flow: metadata, then payloads, then combine *)

\* the operations of the transfer that options describe, as the client sends
\* them to payloads
OperationsOf(options) ==
    <<Operation("token_transfer", options.sender_address, 0 - options.amount[1],
                options.symbol, options.decimals[1]),
      Operation("token_transfer", options.token_transfer_recipient_address,
                options.amount[1], options.symbol, options.decimals[1]),
      Operation("fee", options.sender_address, 0 - options.fee[1],
                options.symbol, options.decimals[1])>>

\* the exchange that has just ended, as the client keeps it
Exchange == [request |-> req, response |-> responses[1], calls |-> calls, local |-> local]

\* the client starts the next request of the flow
ClientSends(request) ==
    /\ flow' = Append(flow, Exchange)
    /\ req' = request
    /\ pc' = request.endpoint
    /\ responses' = <<>>
    /\ threw' = FALSE
    /\ transaction' = NoTx
    /\ preSignHash' = <<>>
    /\ newSignature' = <<>>
    /\ calls' = <<>>
    /\ local' = <<>>

\* after a successful metadata the client asks payloads for the same transfer
\* with the same public keys
ClientRequestsPayloads ==
    /\ pc = "done"
    /\ req.endpoint = "metadata"
    /\ responses # <<>>
    /\ responses[1].status = 200
    /\ ClientSends([endpoint |-> "payloads", schemaValid |-> TRUE,
                    operations |-> OperationsOf(req.options),
                    metadata |-> [account_sequence |->
                                      responses[1].metadata.account_sequence],
                    has_public_keys |-> TRUE, public_keys |-> req.public_keys])

\* after a successful payloads the client signs the payload with the key it
\* named and asks combine for the signed transaction
ClientRequestsCombine ==
    /\ pc = "done"
    /\ req.endpoint = "payloads"
    /\ responses # <<>>
    /\ responses[1].status = 200
    /\ LET key == req.public_keys[1]
           payload == responses[1].payloads[1].hex_bytes
       IN  ClientSends([endpoint |-> "combine", schemaValid |-> TRUE,
                        unsigned_transaction |-> responses[1].unsigned_transaction,
                        signatures |->
                            <<[hex_bytes |-> SignatureOf(Replace0x(key.hex_bytes)[1],
                                                         payload[1], "00"),
                               signing_payload |-> [hex_bytes |-> payload],
                               public_key |-> key]>>])

SpecFlow ==
    InitMetadata
    /\ [][Metadata \/ ClientRequestsPayloads \/ Payloads \/ ClientRequestsCombine
          \/ Combine]_vars

\* the account service is in the same state for every call of the flow: two
\* lookups of one address report one nonce
StableAccounts ==
    \A i \in 1..Len(flow) : \A j \in 1..Len(flow[i].calls) :
        (/\ flow[i].calls[j].call = "getAccount"
         /\ Len(calls) > 0 /\ calls[1].call = "getAccount"
         /\ flow[i].calls[j].arg = calls[1].arg)
            => flow[i].response.metadata.account_sequence = local

\* C11: with the account service unchanged during the flow, the nonce payloads
\* places in the unsigned transaction and hashes into the payload is the
\* account_sequence metadata answered for the same transfer
C11_NonceCarried ==
    (/\ req.endpoint = "payloads" /\ Succeeded
     /\ Len(flow) = 1 /\ flow[1].request.endpoint = "metadata"
     /\ StableAccounts)
        => LET sequence == flow[1].response.metadata.account_sequence
               tx == Deserialize(Tail(Answer.unsigned_transaction))
           IN  /\ <<tx.nonce>> = sequence
               /\ Answer.payloads[1].hex_bytes
                      = makeSigHashPreSign(signBegin(tx), AuthStandard, tx.fee, sequence[1])

-----------------------------------------------------------------------------
(* POST /metadata: the response *)

\* C12: a successful metadata response is the options of the request with
\* account_sequence the nonce the account lookup returned and recent_block_hash
\* the block hash the chain-tip lookup returned; every other key keeps its value
C12_MetadataBody ==
    (req.endpoint = "metadata" /\ Succeeded)
        => /\ Len(calls) = 2
           /\ calls[1].call = "getAccount" /\ calls[2].call = "getCurrentBlock"
           /\ Answer.metadata.account_sequence = calls[1].result
           /\ Answer.metadata.recent_block_hash = calls[2].result
           /\ DOMAIN Answer.metadata
                  = DOMAIN req.options \cup {"account_sequence", "recent_block_hash"}
           /\ \A k \in DOMAIN req.options : Answer.metadata[k] = req.options[k]

\* C12 witness: metadata succeeded with a nonce above zero and a block hash
C12_Witness ==
    /\ req.endpoint = "metadata" /\ Done /\ Succeeded
    /\ Answer.metadata.account_sequence = <<MaxNonce>>
    /\ Answer.metadata.recent_block_hash # <<>>
    /\ Answer.metadata.sender_address = req.options.sender_address

-----------------------------------------------------------------------------
(* POST /preprocess: the answer *)

\* the error C13 names for a request: that of the first failing check, with
\* the two InvalidOperation checks first, then symbol, decimals and max_fee
C13_FirstError(body) ==
    IF Len(body.operations) # 3 \/ OptionsAreNull(body.operations)
    THEN "invalidOperation"
    ELSE IF ~isSymbolSupported(body.operations) THEN "invalidCurrencySymbol"
    ELSE IF ~isDecimalsSupported(body.operations) THEN "invalidCurrencyDecimals"
    ELSE IF body.max_fee # <<>> /\ ~MaxFeeAccepted(body) THEN "invalidFee"
    ELSE ""

\* C13: preprocess answers a schema-valid request that fails a check with
\* exactly one error, that of the first failing check in the order operations,
\* symbol, decimals, max_fee, and with no options
C13_FirstFailureWins ==
    (req.endpoint = "preprocess" /\ Done /\ req.schemaValid /\ C13_FirstError(req) # "")
        => responses = <<Err(C13_FirstError(req))>>


\* C14: a successful preprocess returns every override the request supplies
\* (a value other than zero) under the same name: gas_limit and gas_price of
\* the metadata object, suggested_fee_multiplier of the request
C14_OverridesCarried ==
    (req.endpoint = "preprocess" /\ Succeeded)
        => /\ (req.has_metadata /\ Truthy(req.metadata.gas_limit))
                  => Answer.options.gas_limit = req.metadata.gas_limit
           /\ (req.has_metadata /\ Truthy(req.metadata.gas_price))
                  => Answer.options.gas_price = req.metadata.gas_price
           /\ Truthy(req.suggested_fee_multiplier)
                  => Answer.options.suggested_fee_multiplier = req.suggested_fee_multiplier

-----------------------------------------------------------------------------
(* POST /payloads: the answer *)

\* C15: payloads answers with a transaction only for a list of exactly one
\* public key; a request that passes the operation checks is answered
\* EmptyPublicKey when the list is absent and, once the account lookup has
\* returned, NeedOnePublicKey when its length is not 1, with no transaction built
C15_ExactlyOnePublicKey ==
    req.endpoint = "payloads"
        => /\ (Succeeded \/ transaction # NoTx)
                  => req.has_public_keys /\ Len(req.public_keys) = 1
           /\ (/\ Done /\ req.schemaValid /\ ~req.has_public_keys
               /\ ~OptionsAreNull(req.operations)
               /\ getOptionsFromOperations(req.operations).amount # <<>>
               /\ getOptionsFromOperations(req.operations).fee # <<>>)
                  => responses = <<Err("emptyPublicKey")>>
           /\ (/\ Done /\ req.schemaValid /\ PayloadsError(req) = ""
               /\ ExternalCallsReturned /\ Len(req.public_keys) # 1)
                  => responses = <<Err("needOnePublicKey")>>

\* C15 witness: a list of two public keys was answered NeedOnePublicKey after
\* the account lookup, with no transaction built
C15_Witness ==
    /\ req.endpoint = "payloads" /\ Done
    /\ Len(req.public_keys) = MaxList
    /\ responses = <<Err("needOnePublicKey")>>
    /\ calls # <<>>
    /\ transaction = NoTx


\* C16: the payload payloads returns is the presign hash of the unsigned
\* transaction it returns, the answer depends on the request and the looked-up
\* nonce only, and combine recomputes the same hash from that transaction
C16_PresignHashReproducible ==
    /\ (req.endpoint = "payloads" /\ Succeeded)
          => /\ Answer.payloads[1].hex_bytes
                    = makePresignHash(Deserialize(HexToBuffer(Answer.unsigned_transaction)))
             /\ Answer = PayloadsAnswer([operations |-> req.operations,
                                         public_keys |-> req.public_keys],
                                        calls[1].result)
    /\ (/\ req.endpoint = "combine" /\ Len(flow) = 2
        /\ flow[2].request.endpoint = "payloads"
        /\ pc \in {"combine_normalize", "combine_verify", "combine_splice",
                   "combine_respond", "done"})
          => preSignHash = flow[2].response.payloads[1].hex_bytes

\* C16 witness: combine recomputed the presign hash of a transaction that
\* payloads built over a nonce above zero
C16_Witness ==
    /\ req.endpoint = "combine" /\ Len(flow) = 2
    /\ pc = "combine_normalize"
    /\ transaction.nonce = MaxNonce
    /\ preSignHash # <<>>
    /\ preSignHash = flow[2].response.payloads[1].hex_bytes


\* C17: payloads makes one account lookup, for the sender; the nonce of the
\* unsigned transaction and of the payload is the nonce that lookup returned
\* (0 when it returned none), whatever account_sequence the request carries;
\* the fee of both is the fee of the operations; the one payload entry names
\* the sender with signature type ecdsa_recovery
C17_FreshNonce ==
    (req.endpoint = "payloads" /\ Succeeded)
        => LET options == getOptionsFromOperations(req.operations)
               tx == Deserialize(HexToBuffer(Answer.unsigned_transaction))
               nonce == IF calls[1].result = <<>> THEN 0 ELSE calls[1].result[1]
           IN  /\ Len(calls) = 1
               /\ calls[1].call = "getAccount"
               /\ calls[1].arg = options.sender_address
               /\ tx.nonce = nonce
               /\ tx.fee = options.fee[1]
               /\ Len(Answer.payloads) = 1
               /\ Answer.payloads[1].hex_bytes
                      = makeSigHashPreSign(signBegin(tx), AuthStandard, options.fee[1], nonce)
               /\ Answer.payloads[1].address = options.sender_address
               /\ Answer.payloads[1].signature_type = "ecdsa_recovery"

\* C17 witness: the request carried account_sequence 0 and the transaction was
\* built over the nonce the lookup returned, above zero
C17_Witness ==
    /\ req.endpoint = "payloads" /\ Done /\ Succeeded
    /\ req.metadata.account_sequence = <<0>>
    /\ calls[1].result = <<MaxNonce>>
    /\ Deserialize(HexToBuffer(Answer.unsigned_transaction)).nonce = MaxNonce

-----------------------------------------------------------------------------
(* Public keys *)

\* the public keys a request names, in the order the handlers read them
RequestKeys ==
    IF req.endpoint = "derive" THEN <<req.public_key>>
    ELSE IF req.endpoint \in {"metadata", "payloads"} THEN req.public_keys
    ELSE IF req.endpoint = "combine"
    THEN [i \in 1..Len(req.signatures) |-> req.signatures[i].public_key]
    ELSE <<>>

\* C18: a schema-valid request whose first public key is not of curve
\* secp256k1 never succeeds and is never answered from the decoded key
\* (InvalidPublicKey); no transaction is built from it, no presign hash is
\* computed and no signature is normalized for verification
C18_CurveTypeFirst ==
    (/\ req.schemaValid
     /\ Len(RequestKeys) > 0
     /\ RequestKeys[1].curve_type # "secp256k1")
        => /\ ~Succeeded
           /\ Answered => Answer # Err("invalidPublicKey")
           /\ preSignHash = <<>>
           /\ newSignature = <<>>
           /\ req.endpoint = "payloads" => transaction = NoTx

-----------------------------------------------------------------------------
(* Transaction strings *)

\* the transaction string of a hash, submit, parse or combine request, with the
\* prefix the handler puts on it
RequestTransaction ==
    LET s == IF req.endpoint \in {"hash", "submit"} THEN req.signed_transaction
             ELSE IF req.endpoint = "parse" THEN req.transaction
             ELSE req.unsigned_transaction
    IN  IF has0xPrefix(s) THEN s ELSE <<"0x">> \o s

\* C19: hash, parse and combine answer a transaction string that is malformed
\* hex or does not deserialize with InvalidTransactionString, and do not end
\* by an exception
C19_BadTransactionString ==
    (/\ req.endpoint \in {"hash", "parse", "combine"}
     /\ Done /\ req.schemaValid
     /\ req.endpoint = "combine" => Len(req.signatures) > 0
     /\ \/ HexToBufferThrows(RequestTransaction)
        \/ DeserializeThrows(HexToBuffer(RequestTransaction)))
        => responses = <<Err("invalidTransactionString")>> /\ ~threw


\* C20: submit answers a string that does not decode InvalidTransactionString
\* without calling the broadcast service; otherwise it calls the service once
\* with the decoded bytes and answers InvalidTransactionString when the call
\* fails and 200 with the identifier the service returned when it succeeds
C20_SubmitAnswers ==
    req.endpoint = "submit"
        => /\ Len(calls) <= 1
           /\ (Done /\ req.schemaValid)
                 => IF HexToBufferThrows(RequestTransaction)
                    THEN /\ responses = <<Err("invalidTransactionString")>>
                         /\ calls = <<>>
                    ELSE /\ Len(calls) = 1
                         /\ calls[1].call = "sendTransaction"
                         /\ calls[1].arg = HexToBuffer(RequestTransaction)
                         /\ responses =
                              <<IF calls[1].returned
                                THEN [status |-> 200, error |-> "",
                                      transaction_identifier |->
                                          [hash |-> calls[1].result]]
                                ELSE Err("invalidTransactionString")>>

\* C20 witness: the broadcast call failed and submit answered
\* InvalidTransactionString after that one call
C20_Witness ==
    /\ req.endpoint = "submit" /\ Done
    /\ Len(calls) = 1 /\ ~calls[1].returned
    /\ responses = <<Err("invalidTransactionString")>>

-----------------------------------------------------------------------------
(* POST /parse: the answer *)

\* the actual signed state of a transaction, as C21 reads it
C21_ActuallySigned(t) ==
    /\ t.hasSC
    /\ \/ t.mode = "single" /\ t.signature # <<>> /\ t.signature # Rep(SIG_LENGTH_BYTES, "00")
       \/ t.mode = "multi" /\ t.fields # <<>>

\* C21: for a transaction that deserializes, parse answers InvalidParams
\* exactly when the signed flag differs from the actual signed state; an
\* answer 200 carries the operations of the transaction and, exactly when
\* signed is true, the signers of its spending condition
C21_ParseAnswers ==
    (/\ req.endpoint = "parse" /\ Done /\ req.schemaValid
     /\ ~HexToBufferThrows(RequestTransaction)
     /\ ~DeserializeThrows(HexToBuffer(RequestTransaction)))
        => LET tx == Deserialize(HexToBuffer(RequestTransaction))
           IN  /\ Len(responses) <= 1
               /\ req.signed # C21_ActuallySigned(tx)
                     => responses = <<Err("invalidParams")>>
               /\ (req.signed = C21_ActuallySigned(tx) /\ Answered)
                     => /\ Answer.status = 200
                        /\ Answer.operations = getOperations(tx)
                        /\ Len(Answer.operations) = 3
                        /\ ("account_identifier_signers" \in DOMAIN Answer) = req.signed
                        /\ req.signed
                              => Answer.account_identifier_signers
                                     = <<[address |-> <<"ST", tx.signer>>]>>

\* C21 witness: an unsigned transaction parsed with signed = false was answered
\* with its operations and without signers
C21_Witness ==
    /\ req.endpoint = "parse" /\ Done /\ Succeeded
    /\ ~req.signed
    /\ "account_identifier_signers" \notin DOMAIN Answer
    /\ Len(Answer.operations) = 3

-----------------------------------------------------------------------------
(* External calls *)

\* C22: the only calls a handler makes outside the process are the account
\* lookup, the read of the current block and the broadcast; the datastore is
\* accessed by metadata alone, to read the current block, and never written;
\* derive, preprocess, combine, hash and parse make no call at all
C22_NoDatastoreWrite ==
    \A i \in 1..Len(calls) :
        /\ calls[i].call \in {"getAccount", "getCurrentBlock", "sendTransaction"}
        /\ calls[i].call = "getCurrentBlock" => req.endpoint = "metadata"
        /\ calls[i].call = "sendTransaction" => req.endpoint = "submit"
        /\ req.endpoint \in {"metadata", "payloads", "submit"}

\* C22 witness: metadata has read the current block from the datastore
C22_Witness ==
    /\ req.endpoint = "metadata" /\ Done /\ Succeeded
    /\ Len(calls) = 2
    /\ calls[2].call = "getCurrentBlock"

-----------------------------------------------------------------------------
(* Two payloads calls in flight at once *)

\* payloads requests for one sender: the transfer, or the same transfer to
\* another recipient, with one key of either curve type or with no key
ConcurrentRequests ==
    [endpoint : {"payloads"}, schemaValid : {TRUE},
     operations : {Transfer(RosettaSymbol, RosettaDecimals),
                   [Transfer(RosettaSymbol, RosettaDecimals)
                        EXCEPT ![2].address = AddressOf("01", "testnet")]},
     metadata : [account_sequence : {<<>>}],
     has_public_keys : {TRUE},
     public_keys : {<<>>} \cup {<<[hex_bytes |-> <<"01">>, curve_type |-> c]>> :
                                    c \in CurveTypes}]

\* the second call is a second invocation of the handler of lines 462-552: its
\* request, its position and its local constants are held in flow[1]
InitConcurrent ==
    /\ req \in ConcurrentRequests
    /\ pc = req.endpoint
    /\ responses = <<>>
    /\ threw = FALSE
    /\ transaction = NoTx
    /\ preSignHash = <<>>
    /\ newSignature = <<>>
    /\ calls = <<>>
    /\ local = <<>>
    /\ \E other \in ConcurrentRequests :
          flow = <<[pc |-> "payloads", req |-> other, responses |-> <<>>,
                    calls |-> <<>>, local |-> <<>>, threw |-> FALSE]>>

\* lines 529-551 of the second invocation, reading the nonce of the first
OtherAnswerShared(o) == PayloadsAnswer(o.req, local)

\* lines 529-551 of the second invocation: its own accountInfo
OtherAnswer(o) == PayloadsAnswer(o.req, o.local)

\* lines 462-552, the steps of the second invocation between its awaits
OtherPayloads ==
    /\ Len(flow) = 1
    /\ "pc" \in DOMAIN flow[1]
    /\ LET o == flow[1]
           Ends(r) == [o EXCEPT !.pc = "done", !.responses = <<r>>]
       IN  \/ /\ o.pc = "payloads"
              /\ flow' = <<IF ~o.req.schemaValid THEN Ends(SchemaError)
                           ELSE [o EXCEPT !.pc = "payloads_check"]>>
           \/ /\ o.pc = "payloads_check"
              /\ flow' = <<IF PayloadsError(o.req) # ""
                           THEN Ends(Err(PayloadsError(o.req)))
                           ELSE [o EXCEPT !.pc = "payloads_account"]>>
           \/ /\ o.pc = "payloads_account"
              /\ \E answer \in {<<n>> : n \in 0..MaxNonce} \cup {<<>>, <<-1>>} :
                    flow' = <<[o EXCEPT
                        !.calls = <<[call |-> "getAccount", returned |-> answer # <<-1>>,
                                     arg |-> getOptionsFromOperations(
                                                 o.req.operations).sender_address,
                                     result |-> answer]>>,
                        !.local = IF answer = <<-1>> THEN <<>> ELSE answer,
                        !.threw = answer = <<-1>>,
                        !.pc = IF answer = <<-1>> THEN "done" ELSE "payloads_build"]>>
           \/ /\ o.pc = "payloads_build"
              /\ flow' = <<IF Len(o.req.public_keys) # 1
                           THEN Ends(Err("needOnePublicKey"))
                           ELSE IF o.req.public_keys[1].curve_type # "secp256k1"
                           THEN Ends(Err("invalidCurveType"))
                           ELSE IF MakeUnsignedThrows(TokenTransferOptions(o.req, o.local))
                           THEN [o EXCEPT !.pc = "done", !.threw = TRUE]
                           ELSE Ends(OtherAnswer(o))>>
    /\ UNCHANGED <<pc, req, responses, threw, transaction, preSignHash, newSignature,
                   calls, local>>

SpecConcurrent == InitConcurrent /\ [][Payloads \/ OtherPayloads]_vars

\* the nonce a lookup result stands for
C23_Nonce(result) == IF result = <<>> THEN 0 ELSE result[1]

\* C23: when two payloads calls for one sender are in flight together and both
\* succeed, each transaction carries the nonce of its own lookup: different
\* lookup results give different nonces, and equal results for equal requests
\* give identical unsigned transactions
C23_IndependentCalls ==
    (/\ req.endpoint = "payloads" /\ Len(flow) = 1 /\ "pc" \in DOMAIN flow[1]
     /\ Succeeded
     /\ flow[1].responses # <<>> /\ flow[1].responses[1].status = 200)
        => LET mine == Deserialize(HexToBuffer(Answer.unsigned_transaction))
               other == Deserialize(HexToBuffer(flow[1].responses[1].unsigned_transaction))
               myNonce == C23_Nonce(calls[1].result)
               otherNonce == C23_Nonce(flow[1].calls[1].result)
           IN  /\ mine.nonce = myNonce
               /\ other.nonce = otherNonce
               /\ myNonce # otherNonce => mine.nonce # other.nonce
               /\ (myNonce = otherNonce /\ [req EXCEPT !.public_keys = <<>>]
                       = [flow[1].req EXCEPT !.public_keys = <<>>]
                   /\ req.public_keys = flow[1].req.public_keys)
                     => Answer = flow[1].responses[1]

\* C23 witness: both calls succeeded after the account's nonce changed between
\* their lookups
C23_Witness ==
    /\ req.endpoint = "payloads" /\ Len(flow) = 1 /\ "pc" \in DOMAIN flow[1]
    /\ Succeeded
    /\ flow[1].responses # <<>> /\ flow[1].responses[1].status = 200
    /\ calls[1].result = <<0>>
    /\ flow[1].calls[1].result = <<MaxNonce>>

-----------------------------------------------------------------------------
(* POST /derive: the answer *)

\* the key bytes derive decodes: hex_bytes with a 0x prefix removed
C24_Key == IF has0xPrefix(req.public_key.hex_bytes)
           THEN Replace0x(req.public_key.hex_bytes) ELSE req.public_key.hex_bytes

\* C24: derive answers a schema-valid request from the key bytes and the
\* network alone: InvalidPublicKey when decoding throws or returns nothing,
\* otherwise the address of the key on that network; it makes no external call
C24_DeriveIsPure ==
    req.endpoint = "derive"
        => /\ calls = <<>>
           /\ (Done /\ req.schemaValid)
                 => LET network == req.network_identifier.network
                    IN  responses =
                          <<IF \/ PublicKeyThrows(C24_Key)
                               \/ publicKeyToBitcoinAddress(C24_Key, network) = <<>>
                            THEN Err("invalidPublicKey")
                            ELSE [status |-> 200, error |-> "",
                                  address |-> bitcoinAddressToSTXAddress(
                                      publicKeyToBitcoinAddress(C24_Key, network))]>>

\* C24 witness: derive answered a mainnet key with its mainnet address
C24_Witness ==
    /\ req.endpoint = "derive" /\ Done /\ Succeeded
    /\ req.network_identifier.network = "mainnet"
    /\ Answer.address = <<"SP", Hash160(req.public_key.hex_bytes[1])>>

-----------------------------------------------------------------------------
(* POST /combine: the answer *)

\* the error of the first failing check of combine in the order C26 gives, or
\* "" when every check passes
C26_FirstError ==
    LET signatures == req.signatures
        tx == Deserialize(HexToBuffer(RequestTransaction))
        hash == NormalizeSignature(signatures[1].hex_bytes)
        payload == IF has0xPrefix(signatures[1].public_key.hex_bytes)
                   THEN Replace0x(signatures[1].signing_payload.hex_bytes)
                   ELSE signatures[1].signing_payload.hex_bytes
    IN  IF Len(signatures) = 0 THEN "noSignatures"
        ELSE IF \/ HexToBufferThrows(RequestTransaction)
                \/ DeserializeThrows(HexToBuffer(RequestTransaction))
        THEN "invalidTransactionString"
        ELSE IF Len(signatures) > 1 THEN "needOnlyOneSignature"
        ELSE IF signatures[1].public_key.curve_type # "secp256k1" THEN "invalidCurveType"
        ELSE IF makePresignHash(tx) = <<>> THEN "invalidTransactionString"
        ELSE IF HexByteLength(hash) # SIG_LENGTH_BYTES THEN "invalidSignature"
        ELSE IF ~verifySignature(payload, signatures[1].public_key.hex_bytes, hash)
        THEN "signatureNotVerified"
        ELSE ""

\* C26: the answer of combine to a schema-valid request is the error of the
\* first failing check in the order empty list, transaction string, more than
\* one signature, curve type, presign hash, normalization, verification; a
\* request that passes them all is answered 200
C26_CombineErrorOrder ==
    (req.endpoint = "combine" /\ Done /\ req.schemaValid)
        => /\ Answered
           /\ IF C26_FirstError # ""
              THEN Answer = Err(C26_FirstError)
              ELSE Answer.status = 200

\* C26 witness: a list of two signatures whose first names another curve was
\* answered NeedOnlyOneSignature, the earlier check
C26_Witness ==
    /\ req.endpoint = "combine" /\ Done /\ Answered
    /\ Len(req.signatures) = MaxList
    /\ req.signatures[1].public_key.curve_type # "secp256k1"
    /\ Answer = Err("needOnlyOneSignature")


\* C27: for the 65-byte signature v || r || s that combine has normalized, the
\* trailing form r || s || v normalizes to it, it normalizes to itself, and
\* normalization kept the length of the submitted signature
C27_BothEncodings ==
    (req.endpoint = "combine" /\ pc = "combine_verify")
        => LET leading == newSignature
               trailing == Tail(leading) \o <<leading[1]>>
           IN  /\ NormalizeSignature(trailing) = leading
               /\ NormalizeSignature(leading) = leading
               /\ Len(newSignature) = Len(req.signatures[1].hex_bytes)


-----------------------------------------------------------------------------
(* C29 *)

\* the operations, amount, fee, public_keys, recipient and sender of a payloads
\* body are all present
C29_SixPresent(body) ==
    LET options == getOptionsFromOperations(body.operations)
    IN  /\ ~OptionsAreNull(body.operations)
        /\ options.amount # <<>>
        /\ options.fee # <<>>
        /\ body.has_public_keys
        /\ options.token_transfer_recipient_address # <<>>
        /\ options.sender_address # <<>>

\* C29: payloads calls the account service at most once, and only for a valid body
\* whose operations, amount, fee, public_keys, recipient and sender are present;
\* the answers needOnePublicKey and invalidCurveType come after that lookup has
\* returned, and a request rejected by one of the first six checks made no call
C29_LookupAfterSixChecks ==
    req.endpoint = "payloads"
        => /\ Len(calls) <= 1
           /\ \A i \in 1..Len(calls) :
                 /\ calls[i].call = "getAccount"
                 /\ req.schemaValid
                 /\ C29_SixPresent(req)
           /\ (Answered /\ Answer.error \in {"needOnePublicKey", "invalidCurveType"})
                 => Len(calls) = 1 /\ calls[1].returned
           /\ (Answered /\ (~req.schemaValid \/ ~C29_SixPresent(req)))
                 => calls = <<>>

\* a request with two public keys was rejected after its one lookup returned
C29_Witness ==
    /\ req.endpoint = "payloads"
    /\ Answered
    /\ Answer.error = "needOnePublicKey"
    /\ Len(calls) = 1
    /\ calls[1].call = "getAccount"
    /\ calls[1].returned


-----------------------------------------------------------------------------
(* TokensContractHandler *)

\* the functions of the fungible-token standard: name and arguments
FT_FUNCTIONS ==
    << [name |-> "transfer",
        args |-> << [type |-> "uint128", name |-> "amount"],
                    [type |-> "principal", name |-> "sender"],
                    [type |-> "principal", name |-> "recipient"],
                    [type |-> "optional buffer", name |-> "memo"] >>],
       [name |-> "get-name", args |-> <<>>],
       [name |-> "get-symbol", args |-> <<>>],
       [name |-> "get-decimals", args |-> <<>>],
       [name |-> "get-balance-of",
        args |-> << [type |-> "principal", name |-> "address"] >>],
       [name |-> "get-total-supply", args |-> <<>>],
       [name |-> "get-token-uri", args |-> <<>>] >>

\* the functions of the non-fungible-token standard: name and arguments
NFT_FUNCTIONS ==
    << [name |-> "get-last-token-id", args |-> <<>>],
       [name |-> "get-token-uri",
        args |-> << [type |-> "uint128", name |-> "any"] >>],
       [name |-> "get-owner",
        args |-> << [type |-> "uint128", name |-> "any"] >>],
       [name |-> "transfer",
        args |-> << [type |-> "uint128", name |-> "id"],
                    [type |-> "principal", name |-> "sender"],
                    [type |-> "principal", name |-> "recipient"] >>] >>

\* the function lists a contract ABI may declare: the standards, both, the
\* standards under other argument names and types, lists that miss the
\* four-argument transfer, none
ContractFunctionLists ==
    LET Retype(list) ==
            [i \in 1..Len(list) |->
                [name |-> list[i].name,
                 args |-> [k \in 1..Len(list[i].args) |->
                              [type |-> "bool", name |-> "x"]]]]
    IN  { FT_FUNCTIONS, NFT_FUNCTIONS, FT_FUNCTIONS \o NFT_FUNCTIONS,
          Retype(FT_FUNCTIONS), Retype(FT_FUNCTIONS \o NFT_FUNCTIONS),
          Tail(FT_FUNCTIONS), NFT_FUNCTIONS \o Tail(FT_FUNCTIONS), <<>> }

\* lines 350-365 with the arguments compared by value
findFunctionComparingArgs(fun, functionList) ==
    LET callback(standardFunction) ==
            IF /\ standardFunction.name = fun.name
               /\ Len(standardFunction.args) = Len(fun.args)
            THEN \A index \in 1..Len(standardFunction.args) :
                    standardFunction.args[index] = fun.args[index]
            ELSE FALSE
    IN  \E i \in 1..Len(functionList) : callback(functionList[i])

\* lines 350-365: find() with a callback that answers true on an equal name and
\* an equal number of arguments; the return inside forEach leaves the callback
\* of forEach, never the callback of find
findFunction(fun, functionList) ==
    LET callback(standardFunction) ==
            IF /\ standardFunction.name = fun.name
               /\ Len(standardFunction.args) = Len(fun.args)
            THEN TRUE
            ELSE FALSE
    IN  \E i \in 1..Len(functionList) : callback(functionList[i])

\* lines 336-338
isCompliant(standardFunction, contractAbi) ==
    \A i \in 1..Len(standardFunction) :
        findFunction(standardFunction[i], contractAbi.functions)

\* lines 160-188: the handler after construction, with the private key drawn at
\* random and the address derived from it
InitTokens ==
    /\ \E functions \in ContractFunctionLists, ft \in 0..1, nft \in 0..1,
          randomPrivKey \in ValidKey :
          req = [endpoint |-> "tokens",
                 contractAddress |-> <<"ST", "00">>,
                 contractName |-> "token",
                 contractAbi |-> [functions |-> functions,
                                  fungible_tokens |-> ft,
                                  non_fungible_tokens |-> nft],
                 randomPrivKey |-> randomPrivKey,
                 address |-> AddressOf(randomPrivKey, "testnet")]
    /\ pc = "tokens"
    /\ responses = <<>>
    /\ threw = FALSE
    /\ transaction = NoTx
    /\ preSignHash = <<>>
    /\ newSignature = <<>>
    /\ calls = <<>>
    /\ local = <<>>
    /\ flow = <<>>

\* lines 295-308: the node answers with a Clarity value, or the call fails
makeReadOnlyContractCall(functionName, functionArgs, next) ==
    \E answer \in {"ResponseOk StringASCII", "ResponseOk OptionalSome StringASCII",
                   "ResponseOk UInt", "throws"} :
        /\ calls' = Append(calls,
              [call |-> "callReadOnlyFunction", returned |-> answer # "throws",
               arg |-> [senderAddress |-> req.address,
                        contractAddress |-> req.contractAddress,
                        contractName |-> req.contractName,
                        functionName |-> functionName,
                        functionArgs |-> functionArgs],
               result |-> answer])
        /\ IF answer = "throws"
           THEN Throw /\ UNCHANGED local
           ELSE Goto(next) /\ local' = Append(local, answer)

\* lines 189-201: the two tests of start()
start ==
    /\ \/ /\ pc = "tokens"
          /\ IF /\ req.contractAbi.fungible_tokens > 0
                /\ isCompliant(FT_FUNCTIONS, req.contractAbi)
             THEN Goto("ft_name")
             ELSE Goto("tokens_nft")
       \/ /\ pc = "tokens_nft"
          /\ IF /\ req.contractAbi.non_fungible_tokens > 0
                /\ isCompliant(NFT_FUNCTIONS, req.contractAbi)
             THEN Goto("nft_last")
             ELSE Goto("done")
    /\ UNCHANGED <<flow, req, transaction, preSignHash, newSignature, calls, local>>

\* lines 206-232, with makeApiCall (263-281) and storeFTMetadata (313-319)
handleFTContract ==
    /\ \/ pc = "ft_name" /\ makeReadOnlyContractCall("get-name", <<>>, "ft_uri")
       \/ pc = "ft_uri" /\ makeReadOnlyContractCall("get-token-uri", <<>>, "ft_symbol")
       \/ pc = "ft_symbol" /\ makeReadOnlyContractCall("get-symbol", <<>>, "ft_decimals")
       \/ pc = "ft_decimals" /\ makeReadOnlyContractCall("get-decimals", <<>>, "ft_metadata")
       \/ /\ pc = "ft_metadata"
          /\ LET uriCV == local[2] = "ResponseOk OptionalSome StringASCII"
             IN  IF uriCV
                 THEN \E ok \in BOOLEAN :
                         /\ calls' = Append(calls, [call |-> "fetch", returned |-> ok,
                                                    arg |-> "uri", result |-> ok])
                         /\ IF ok THEN Goto("ft_store") ELSE Throw
                         /\ UNCHANGED local
                 ELSE Goto("tokens_nft") /\ local' = <<>> /\ UNCHANGED calls
       \/ /\ pc = "ft_store"
          /\ LET nameCV == local[1] = "ResponseOk StringASCII"
                 symbolCV == local[3] = "ResponseOk StringASCII"
                 decimalsCV == local[4] = "ResponseOk UInt"
                 fungibleTokenMetadata ==
                     [name |-> IF nameCV THEN "nameCV.data" ELSE "metadata.name",
                      image_canonical_uri |-> "uriCV.data",
                      symbol |-> IF symbolCV THEN "symbolCV.data" ELSE "",
                      decimals |-> IF decimalsCV THEN "decimalsCV.value" ELSE "0",
                      contract_id |-> <<req.contractAddress, req.contractName>>]
             IN  \E stored \in BOOLEAN :
                     calls' = Append(calls, [call |-> "updateFtMetadata",
                                             returned |-> stored,
                                             arg |-> fungibleTokenMetadata,
                                             result |-> stored])
          /\ Goto("tokens_nft")
          /\ local' = <<>>
    /\ UNCHANGED <<flow, req, transaction, preSignHash, newSignature>>

\* lines 237-257, with makeApiCall (263-281) and storeNFTMetadata (324-330)
handleNFTContract ==
    /\ \/ pc = "nft_last" /\ makeReadOnlyContractCall("get-last-token-id", <<>>, "nft_id")
       \/ /\ pc = "nft_id"
          /\ LET tokenId == local[1] = "ResponseOk UInt"
             IN  IF tokenId
                 THEN makeReadOnlyContractCall("get-token-uri", <<local[1]>>,
                                               "nft_metadata")
                 ELSE Goto("done") /\ UNCHANGED <<calls, local>>
       \/ /\ pc = "nft_metadata"
          /\ LET uriCV == local[2] = "ResponseOk OptionalSome StringASCII"
             IN  IF uriCV
                 THEN \E ok \in BOOLEAN :
                         /\ calls' = Append(calls, [call |-> "fetch", returned |-> ok,
                                                    arg |-> "uri", result |-> ok])
                         /\ IF ok THEN Goto("nft_store") ELSE Throw
                 ELSE Goto("done") /\ UNCHANGED calls
          /\ UNCHANGED local
       \/ /\ pc = "nft_store"
          /\ \E stored \in BOOLEAN :
                calls' = Append(calls,
                    [call |-> "updateNFtMetadata", returned |-> stored,
                     arg |-> [name |-> "metadata.name",
                              image_canonical_uri |-> "uriCV.data",
                              contract_id |-> <<req.contractAddress, req.contractName>>],
                     result |-> stored])
          /\ Goto("done")
          /\ UNCHANGED local
    /\ UNCHANGED <<flow, req, transaction, preSignHash, newSignature>>

SpecTokens == InitTokens /\ [][start \/ handleFTContract \/ handleNFTContract]_vars

-----------------------------------------------------------------------------
(* C28 *)

\* the read-only calls made so far, by position in calls
C28_ReadOnlyCalls == {i \in 1..Len(calls) : calls[i].call = "callReadOnlyFunction"}

\* C28: no two read-only contract calls of the handler are made from the sender
\* address the handler holds: each call uses a key made for that call
C28_KeyPerCall ==
    req.endpoint = "tokens"
        => \A i, j \in C28_ReadOnlyCalls :
              i < j => ~(/\ calls[i].arg.senderAddress = req.address
                         /\ calls[j].arg.senderAddress = req.address)

-----------------------------------------------------------------------------
(* C30 *)

\* the names and argument counts a function list declares
C30_Shape(list) == {<<list[i].name, Len(list[i].args)>> : i \in 1..Len(list)}

\* the read-only calls of handleFTContract and of handleNFTContract in calls
C30_FTCalls ==
    {i \in 1..Len(calls) :
        /\ calls[i].call = "callReadOnlyFunction"
        /\ \/ calls[i].arg.functionName \in {"get-name", "get-symbol", "get-decimals"}
           \/ /\ calls[i].arg.functionName = "get-token-uri"
              /\ calls[i].arg.functionArgs = <<>>}

C30_NFTCalls ==
    {i \in 1..Len(calls) :
        /\ calls[i].call = "callReadOnlyFunction"
        /\ \/ calls[i].arg.functionName = "get-last-token-id"
           \/ /\ calls[i].arg.functionName = "get-token-uri"
              /\ calls[i].arg.functionArgs # <<>>}

====
